---------------------------- MODULE Spec2Model ----------------------------
(***************************************************************************)
(* Lead finder (src/app.py): search result merging, domain filtering,      *)
(* e-mail extraction, robots-aware cached crawling and lead accumulation.  *)
(*                                                                         *)
(* Text is modelled as sequences of one-character strings, so that         *)
(* str.lower(), str.endswith() and the regular expressions of the program  *)
(* are computed character by character.                                    *)
(***************************************************************************)
EXTENDS Naturals, Integers, Sequences, FiniteSets, TLC

VARIABLES
    \* ---- merge_and_dedupe harness
    mHits,      \* the hit list handed to merge_and_dedupe
    mOnce,      \* merge_and_dedupe(mHits)
    mTwice,     \* merge_and_dedupe(merge_and_dedupe(mHits))
    mPhase,     \* "in" | "once" | "twice"
    \* ---- domain filter harness
    fUrl,       \* the link handed to is_allowed_by_lists
    fAllowText, \* the lines of the "Allow domains" text area
    fDenyText,  \* the lines of the "Deny domains" text area
    allow_domains,
    deny_domains,
    fResult,    \* what is_allowed_by_lists returned
    fPhase,     \* "text" | "parsed" | "done"
    \* ---- e-mail extraction harness
    eText,      \* the page text handed to extract_emails_from_text
    eOut,       \* the list it returned
    ePhase,     \* "text" | "done"
    \* ---- the clock and the SQLite cache (cache.db)
    now,            \* time.time()
    ticks,          \* how often the clock was advanced
    cache_pages,    \* url -> [html, fetched_at]
    cache_robots,   \* host -> [content, fetched_at]
    cache_emails,   \* url -> [emails, phone, fetched_at]
    \* ---- what the last step did
    ret,            \* the call the last step made: its arguments and its result
    trace,          \* the sleeps, robots answers and network requests of the last step, in order
    lastEvt,        \* the last sleep or network request before the last step
    \* ---- the script: session state, sidebar settings and its position
    pc,             \* where the script is
    leads_df,       \* st.session_state.leads_df
    runs,           \* how many runs were started
    enable_mx,      \* the "Verify emails with MX lookup" checkbox
    caller,         \* who called crawl_for_emails: "harness" | "pipeline"
    crawl,          \* the locals of crawl_for_emails: start_url, emails, phone, pages left
    job             \* the locals of a run: the hits left, the hit at hand, the new rows, ...

mvars == <<mHits, mOnce, mTwice, mPhase>>
fvars == <<fUrl, fAllowText, fDenyText, allow_domains, deny_domains, fResult, fPhase>>
evars == <<eText, eOut, ePhase>>
cvars == <<now, ticks, cache_pages, cache_robots, cache_emails>>
ovars == <<ret, trace, lastEvt>>
svars == <<pc, leads_df, runs, enable_mx, caller, crawl, job>>
vars == <<mvars, fvars, evars, cvars, ovars, svars>>

----------------------------------------------------------------------------
(* Characters and strings *)

LowerCase == <<"a","b","c","d","e","f","g","h","i","j","k","l","m",
               "n","o","p","q","r","s","t","u","v","w","x","y","z">>
UpperCase == <<"A","B","C","D","E","F","G","H","I","J","K","L","M",
               "N","O","P","Q","R","S","T","U","V","W","X","Y","Z">>
Digits == {"0","1","2","3","4","5","6","7","8","9"}

Range(s) == {s[i] : i \in DOMAIN s}
Letters == Range(LowerCase) \cup Range(UpperCase)

\* str.lower() on one character, then on a string
LowerChar(c) ==
    IF c \in Range(UpperCase)
    THEN LowerCase[CHOOSE i \in DOMAIN UpperCase : UpperCase[i] = c]
    ELSE c
Lower(s) == [i \in DOMAIN s |-> LowerChar(s[i])]

\* str.endswith(suffix)
EndsWith(s, suf) ==
    /\ Len(suf) <= Len(s)
    /\ SubSeq(s, Len(s) - Len(suf) + 1, Len(s)) = suf

\* str.startswith(prefix)
StartsWith(s, pre) ==
    /\ Len(pre) <= Len(s)
    /\ SubSeq(s, 1, Len(pre)) = pre

----------------------------------------------------------------------------
(* URLs.  A link is the record [scheme, auth, path, query] of the text     *)
(*   scheme "://" auth path "?" query     (scheme # "")                     *)
(*   auth path "?" query                  (scheme = "": no "//" at all)     *)

NoStr == << >>

\* urllib.parse.urlparse: without "scheme://" there is no netloc, and the
\* authority text is the head of the path.
urlparse(u) ==
    IF u.scheme = ""
    THEN [scheme |-> "", netloc |-> NoStr, path |-> u.auth \o u.path, query |-> u.query]
    ELSE [scheme |-> u.scheme, netloc |-> u.auth, path |-> u.path, query |-> u.query]

\* urlparse raises ValueError("Invalid IPv6 URL") when the netloc holds one
\* square bracket without the other
urlparse_raises(u) ==
    /\ u.scheme # ""
    /\ ("[" \in Range(u.auth)) # ("]" \in Range(u.auth))

\* normalize_url: "http://" is put before a link that has no scheme
normalize_url(u) ==
    IF urlparse_raises(u) THEN u
    ELSE IF urlparse(u).scheme = ""
    THEN [scheme |-> "http", auth |-> u.auth, path |-> u.path, query |-> u.query]
    ELSE u

\* domain(url): the lowercased netloc, "" when urlparse raises
domain(u) == IF urlparse_raises(u) THEN NoStr ELSE Lower(urlparse(u).netloc)

----------------------------------------------------------------------------
(* Search aggregation: merge_and_dedupe *)

prefer_order == <<"duckduckgo", "bing", "google">>

\* tuple.index
IndexOf(seq, x) == CHOOSE i \in DOMAIN seq : seq[i] = x

\* the key of a hit: (scheme, lowercased netloc, path) of its normalized link
HitKey(h) ==
    LET p == urlparse(normalize_url(h.link))
    IN  <<p.scheme, Lower(p.netloc), p.path>>

\* the first position of `ordered` holding key `key` (lines 480-485)
MutFirstWithKey(ordered, key) == 1
FirstWithKey(ordered, key) ==
    CHOOSE i \in DOMAIN ordered :
        /\ HitKey(ordered[i]) = key
        /\ \A j \in 1..(i-1) : HitKey(ordered[j]) # key

\* whether hit h replaces the kept hit prev (lines 477-478)
MutReplaces(h, prev) ==
    /\ h.engine \in Range(prefer_order)
    /\ prev.engine \in Range(prefer_order)
    /\ IndexOf(prefer_order, h.engine) > IndexOf(prefer_order, prev.engine)
Replaces(h, prev) ==
    /\ h.engine \in Range(prefer_order)
    /\ prev.engine \in Range(prefer_order)
    /\ IndexOf(prefer_order, h.engine) < IndexOf(prefer_order, prev.engine)

\* whether the try block of the loop computes a key for h (lines 467-471)
HasKey(h) == ~urlparse_raises(normalize_url(h.link))

\* a turn that takes the replaced hit out and puts the new one at the end
MutMergeStep(st, h) ==
    LET key == HitKey(h)
        Other(x) == HitKey(x) # key
    IN  IF ~HasKey(h) THEN st
        ELSE IF key \notin DOMAIN st.seen_key
        THEN [seen_key |-> [k \in DOMAIN st.seen_key \cup {key} |->
                               IF k = key THEN h ELSE st.seen_key[k]],
              ordered  |-> Append(st.ordered, h)]
        ELSE IF Replaces(h, st.seen_key[key])
             THEN [seen_key |-> [st.seen_key EXCEPT ![key] = h],
                   ordered  |-> Append(SelectSeq(st.ordered, Other), h)]
             ELSE st

\* one turn of the loop over hits: st = [seen_key, ordered]
MergeStep(st, h) ==
    LET key == HitKey(h)
    IN  IF ~HasKey(h) THEN st
        ELSE IF key \notin DOMAIN st.seen_key
        THEN [seen_key |-> [k \in DOMAIN st.seen_key \cup {key} |->
                               IF k = key THEN h ELSE st.seen_key[k]],
              ordered  |-> Append(st.ordered, h)]
        ELSE IF Replaces(h, st.seen_key[key])
             THEN [seen_key |-> [st.seen_key EXCEPT ![key] = h],
                   ordered  |-> [st.ordered EXCEPT ![FirstWithKey(st.ordered, key)] = h]]
             ELSE st

RECURSIVE MergeFrom(_, _, _)
MergeFrom(st, hits, i) ==
    IF i > Len(hits) THEN st
    ELSE MergeFrom(MergeStep(st, hits[i]), hits, i + 1)

merge_and_dedupe(hits) ==
    MergeFrom([seen_key |-> << >>, ordered |-> << >>], hits, 1).ordered

----------------------------------------------------------------------------
(* Hit lists of the merge harness *)

MaxHits == 3

A_COM == <<"a", ".", "c", "o", "m">>
A_COM_UP == <<"A", ".", "c", "o", "m">>
BAD_AUTH == <<"[", "a">>
P_X == <<"/", "x">>
Q_1 == <<"q", "=", "1">>

MergeLinks ==
    { [scheme |-> "http",  auth |-> A_COM,    path |-> P_X, query |-> NoStr],
      [scheme |-> "",      auth |-> A_COM_UP, path |-> P_X, query |-> Q_1],
      [scheme |-> "https", auth |-> A_COM,    path |-> P_X, query |-> NoStr],
      [scheme |-> "",      auth |-> BAD_AUTH, path |-> P_X, query |-> NoStr] }

MergeEngines == {"duckduckgo", "bing", "google", "yahoo"}

MergeHits == [link : MergeLinks, engine : MergeEngines]

RECURSIVE SeqsUpTo(_, _)
SeqsUpTo(S, n) ==
    IF n = 0 THEN { << >> }
    ELSE LET shorter == SeqsUpTo(S, n - 1)
         IN  shorter \cup { Append(s, x) : s \in {t \in shorter : Len(t) = n - 1}, x \in S }

MergeIdle ==
    /\ mHits = << >>
    /\ mOnce = << >>
    /\ mTwice = << >>
    /\ mPhase = "idle"

FilterIdle ==
    /\ fUrl = [scheme |-> "", auth |-> NoStr, path |-> NoStr, query |-> NoStr]
    /\ fAllowText = << >>
    /\ fDenyText = << >>
    /\ allow_domains = << >>
    /\ deny_domains = << >>
    /\ fResult = FALSE
    /\ fPhase = "idle"

EmailIdle ==
    /\ eText = << >>
    /\ eOut = << >>
    /\ ePhase = "idle"

CACHE_TTL_SECONDS == 604800

StartTime == 1000

NoUrl == [scheme |-> "", auth |-> NoStr, path |-> NoStr, query |-> NoStr]
NoRet == [fn |-> "none"]

\* init_db on a new cache.db; nothing was called yet
CacheInit ==
    /\ now = StartTime
    /\ ticks = 0
    /\ cache_pages = << >>
    /\ cache_robots = << >>
    /\ cache_emails = << >>
    /\ ret = NoRet
    /\ trace = << >>
    /\ lastEvt = "none"

NoCrawl == [start |-> NoUrl, emails |-> {}, phone |-> NoStr, pages |-> {}]

NoHit == [link |-> NoUrl, engine |-> ""]

NoJob == [engines |-> {}, todo |-> << >>, qi |-> 0, local_hits |-> << >>, all_hits |-> << >>,
          hits |-> << >>, hit |-> NoHit, name |-> NoStr, new_rows |-> << >>, flooring |-> TRUE]

ScriptIdle ==
    /\ pc = "idle"
    /\ leads_df = << >>
    /\ runs = 0
    /\ enable_mx = FALSE
    /\ caller = "harness"
    /\ crawl = NoCrawl
    /\ job = NoJob

MergeInit ==
    /\ mHits \in SeqsUpTo(MergeHits, MaxHits)
    /\ mOnce = << >>
    /\ mTwice = << >>
    /\ mPhase = "in"
    /\ FilterIdle
    /\ EmailIdle
    /\ CacheInit
    /\ ScriptIdle

\* the per-query merge (line 591)
MergeLocal ==
    /\ mPhase = "in"
    /\ mOnce' = merge_and_dedupe(mHits)
    /\ mPhase' = "once"
    /\ UNCHANGED <<mHits, mTwice, fvars, evars, cvars, ovars, svars>>

\* the global dedupe of what was merged already (line 598)
MergeGlobal ==
    /\ mPhase = "once"
    /\ mTwice' = merge_and_dedupe(mOnce)
    /\ mPhase' = "twice"
    /\ UNCHANGED <<mHits, mOnce, fvars, evars, cvars, ovars, svars>>

MergeNext == MergeLocal \/ MergeGlobal

SpecMerge == MergeInit /\ [][MergeNext]_vars

\* the hits of `hits` that have key `key`
Group(hits, key) == { i \in DOMAIN hits : HasKey(hits[i]) /\ HitKey(hits[i]) = key }

Rank(h) == IndexOf(prefer_order, h.engine)

\* C2: when every engine of the input is in the precedence order, each group
\* of input hits sharing a key is represented in the merged list by exactly
\* one hit, a hit of that group whose engine has the highest precedence
\* present in the group, whatever the order of the input.
C2_PrecedenceTieBreak ==
    (/\ mPhase # "in"
     /\ \A i \in DOMAIN mHits : mHits[i].engine \in Range(prefer_order))
    => \A i \in DOMAIN mHits :
         HasKey(mHits[i]) =>
           LET key == HitKey(mHits[i])
               g == Group(mHits, key)
               reps == Group(mOnce, key)
           IN  /\ Cardinality(reps) = 1
               /\ \A j \in reps :
                    /\ \E k \in g : mOnce[j] = mHits[k]
                    /\ \A k \in g : Rank(mOnce[j]) <= Rank(mHits[k])

\* a bing hit comes first, a duckduckgo hit with the same key later, and the
\* merged list holds the duckduckgo hit
C2_Witness ==
    /\ mPhase = "once"
    /\ Len(mHits) >= 2
    /\ mHits[1].engine = "bing"
    /\ mHits[2].engine = "duckduckgo"
    /\ HasKey(mHits[1]) /\ HasKey(mHits[2])
    /\ HitKey(mHits[1]) = HitKey(mHits[2])
    /\ mHits[1].link # mHits[2].link
    /\ mOnce[1] = mHits[2]

\* C3: merging a merged list again changes nothing.
C3_DedupIdempotent == mPhase = "twice" => mTwice = mOnce

\* the second merge ran on a list that the first merge had shortened and in
\* which it had replaced a hit
C3_Witness ==
    /\ mPhase = "twice"
    /\ Len(mHits) = 3
    /\ Len(mOnce) = 2
    /\ mOnce[2] = mHits[3]
    /\ mTwice = mOnce

\* the keys of the hits that have one, in their order
RECURSIVE KeysOf(_)
KeysOf(hits) ==
    IF hits = << >> THEN << >>
    ELSE (IF HasKey(Head(hits)) THEN <<HitKey(Head(hits))>> ELSE << >>) \o KeysOf(Tail(hits))

\* a sequence without the repetitions of what came earlier in it
RECURSIVE FirstOccurrences(_)
FirstOccurrences(s) ==
    IF s = << >> THEN << >>
    ELSE LET front == FirstOccurrences(SubSeq(s, 1, Len(s) - 1))
             last == s[Len(s)]
         IN  IF last \in Range(front) THEN front ELSE Append(front, last)

\* what the merge holds after the first n hits
MergedAfter(n) == merge_and_dedupe(SubSeq(mHits, 1, n))

\* hit h after the merged list a gave the merged list b: h was appended
\* under a new key, or nothing moved and at most the hit with the key of h
\* gave way to h, which then has the strictly higher precedence
KeepsPositions(a, h, b) ==
    IF ~HasKey(h) THEN b = a
    ELSE IF HitKey(h) \notin Range(KeysOf(a)) THEN b = Append(a, h)
    ELSE /\ Len(b) = Len(a)
         /\ \A p \in DOMAIN a :
               b[p] # a[p] =>
                 /\ b[p] = h
                 /\ HitKey(a[p]) = HitKey(h)
                 /\ h.engine \in Range(prefer_order)
                 /\ a[p].engine \in Range(prefer_order)
                 /\ Rank(h) < Rank(a[p])

\* C11: the keys of the merged list are the distinct keys of the input in
\* the order of their first occurrence, each once; every hit of the input
\* either adds its new key at the end or leaves all positions as they are,
\* replacing at most the kept hit of its key, and only when its engine has
\* strictly higher precedence.
C11_FirstAppearance ==
    mPhase # "in" =>
        /\ KeysOf(mOnce) = FirstOccurrences(KeysOf(mHits))
        /\ \A n \in 0..(Len(mHits) - 1) :
              KeepsPositions(MergedAfter(n), mHits[n + 1], MergedAfter(n + 1))

\* the third hit replaced the first in its place, before a hit of another
\* key, although its key appeared first
C11_Witness ==
    /\ mPhase = "once"
    /\ Len(mHits) = 3
    /\ Len(mOnce) = 2
    /\ HasKey(mHits[1]) /\ HasKey(mHits[2]) /\ HasKey(mHits[3])
    /\ HitKey(mHits[1]) # HitKey(mHits[2])
    /\ HitKey(mHits[3]) = HitKey(mHits[1])
    /\ mHits[3] # mHits[1]
    /\ mOnce = <<mHits[3], mHits[2]>>

\* a later hit of equal precedence left the kept hit where it was
C11_WitnessKept ==
    /\ mPhase = "once"
    /\ Len(mHits) = 2
    /\ HitKey(mHits[2]) = HitKey(mHits[1])
    /\ mHits[2].engine = mHits[1].engine
    /\ mHits[2].link # mHits[1].link
    /\ mOnce = <<mHits[1]>>

----------------------------------------------------------------------------
(* Domain filter: parse_domain_rules and is_allowed_by_lists *)

WhiteSpace == {" ", "\t"}

\* str.strip()
RECURSIVE LStrip(_)
LStrip(s) == IF s # << >> /\ Head(s) \in WhiteSpace THEN LStrip(Tail(s)) ELSE s
RECURSIVE RStrip(_)
RStrip(s) ==
    IF s # << >> /\ s[Len(s)] \in WhiteSpace THEN RStrip(SubSeq(s, 1, Len(s) - 1)) ELSE s
Strip(s) == RStrip(LStrip(s))

\* parse_domain_rules on the lines of the text: blank lines and lines that
\* start with "#" are dropped, the others are stripped and lowercased
RECURSIVE parse_domain_rules(_)
parse_domain_rules(lines) ==
    IF lines = << >> THEN << >>
    ELSE LET line == Strip(Head(lines))
             rest == parse_domain_rules(Tail(lines))
         IN  IF line = << >> THEN rest
             ELSE IF StartsWith(line, <<"#">>) THEN rest
             ELSE <<Lower(line)>> \o rest

\* is_allowed_by_lists(url) under the rule lists allow and deny
MutAllowedBy(url, allow, deny) ==
    LET host == domain(url)
    IN  IF host = NoStr THEN FALSE
        ELSE IF allow # << >>
             THEN \E i \in DOMAIN allow : EndsWith(host, allow[i])
             ELSE ~\E i \in DOMAIN deny : EndsWith(host, deny[i])
AllowedBy(url, allow, deny) ==
    LET host == domain(url)
    IN  IF host = NoStr THEN FALSE
        ELSE IF \E i \in DOMAIN deny : EndsWith(host, deny[i]) THEN FALSE
        ELSE IF allow # << >>
             THEN \E i \in DOMAIN allow : EndsWith(host, allow[i])
             ELSE TRUE

is_allowed_by_lists(url) == AllowedBy(url, allow_domains, deny_domains)

MaxRules == 2

FB_COM == <<"f", "b", ".", "c", "o", "m">>
FB_COM_UP == <<"F", "B", ".", "c", "o", "m">>
XFB_COM == <<"x", "f", "b", ".", "c", "o", "m">>
SUB_A_COM == <<"s", ".", "a", ".", "c", "o", "m">>
B_ORG == <<"b", ".", "o", "r", "g">>

FilterLinks ==
    { [scheme |-> "https", auth |-> FB_COM,    path |-> P_X,   query |-> NoStr],
      [scheme |-> "http",  auth |-> FB_COM_UP, path |-> NoStr, query |-> NoStr],
      [scheme |-> "http",  auth |-> XFB_COM,   path |-> NoStr, query |-> NoStr],
      [scheme |-> "https", auth |-> SUB_A_COM, path |-> NoStr, query |-> NoStr],
      [scheme |-> "http",  auth |-> A_COM,     path |-> P_X,   query |-> NoStr],
      [scheme |-> "http",  auth |-> B_ORG,     path |-> NoStr, query |-> NoStr],
      [scheme |-> "",      auth |-> A_COM,     path |-> P_X,   query |-> NoStr],
      [scheme |-> "http",  auth |-> BAD_AUTH,  path |-> NoStr, query |-> NoStr] }

RuleLines ==
    { FB_COM,
      <<" ">> \o A_COM_UP \o <<" ">>,
      <<"#">> \o A_COM,
      << >> }

FilterInit ==
    /\ fUrl \in FilterLinks
    /\ fAllowText \in SeqsUpTo(RuleLines, MaxRules)
    /\ fDenyText \in SeqsUpTo(RuleLines, MaxRules)
    /\ allow_domains = << >>
    /\ deny_domains = << >>
    /\ fResult = FALSE
    /\ fPhase = "text"
    /\ MergeIdle
    /\ EmailIdle
    /\ CacheInit
    /\ ScriptIdle

\* lines 546-547: the rule lists are parsed from the two text areas
ParseRules ==
    /\ fPhase = "text"
    /\ allow_domains' = parse_domain_rules(fAllowText)
    /\ deny_domains' = parse_domain_rules(fDenyText)
    /\ fPhase' = "parsed"
    /\ UNCHANGED <<fUrl, fAllowText, fDenyText, fResult, mvars, evars, cvars, ovars, svars>>

\* line 601: one link is filtered
FilterLink ==
    /\ fPhase = "parsed"
    /\ fResult' = is_allowed_by_lists(fUrl)
    /\ fPhase' = "done"
    /\ UNCHANGED <<fUrl, fAllowText, fDenyText, allow_domains, deny_domains, mvars, evars, cvars, ovars, svars>>

FilterNext == ParseRules \/ FilterLink

SpecFilter == FilterInit /\ [][FilterNext]_vars

\* the lowercased host of the filtered link: the text between "://" and the path
FHost == IF fUrl.scheme = "" \/ urlparse_raises(fUrl) THEN NoStr ELSE Lower(fUrl.auth)

\* host = x \o suf for some x
HasSuffix(host, suf) == \E n \in 0..Len(host) : host = SubSeq(host, 1, n) \o suf

DenyHit == \E i \in DOMAIN deny_domains : HasSuffix(FHost, deny_domains[i])
AllowHit == \E i \in DOMAIN allow_domains : HasSuffix(FHost, allow_domains[i])

\* C4: a link with an empty host is rejected; a link whose lowercased host
\* ends with a deny suffix is rejected whatever the allow list holds; else,
\* with a non-empty allow list, exactly the links whose host ends with an
\* allow suffix are accepted; else the link is accepted.
C4_DenyPrecedence ==
    fPhase = "done" =>
        /\ FHost = NoStr => ~fResult
        /\ DenyHit => ~fResult
        /\ (FHost # NoStr /\ ~DenyHit /\ allow_domains # << >>) => (fResult <=> AllowHit)
        /\ (FHost # NoStr /\ ~DenyHit /\ allow_domains = << >>) => fResult

\* a host that matches both an allow suffix and a deny suffix was rejected
C4_Witness ==
    /\ fPhase = "done"
    /\ FHost # NoStr
    /\ DenyHit
    /\ AllowHit
    /\ ~fResult

----------------------------------------------------------------------------
(* Contact extraction: EMAIL_REGEX and extract_emails_from_text *)

\* the printable ASCII characters in code-point order: 32 and 33, 35 to 91,
\* 93 to 95, 97 to 126 (the double quote, 34, the backslash, 92, and the
\* grave accent, 96, are left out)
AsciiA == <<" ","!">>
AsciiB == <<"#","$","%","&","'","(",")","*","+",",","-",".","/",
            "0","1","2","3","4","5","6","7","8","9",":",";","<","=",">","?",
            "@","A","B","C","D","E","F","G","H","I","J","K","L","M","N","O",
            "P","Q","R","S","T","U","V","W","X","Y","Z","[">>
AsciiC == <<"]","^","_">>
AsciiD == <<"a","b","c","d","e","f","g","h","i","j","k","l","m","n","o",
            "p","q","r","s","t","u","v","w","x","y","z","{","|","}","~">>

\* ord(c)
Ord(c) ==
    IF c \in Range(AsciiA) THEN 31 + IndexOf(AsciiA, c)
    ELSE IF c \in Range(AsciiB) THEN 34 + IndexOf(AsciiB, c)
    ELSE IF c \in Range(AsciiC) THEN 92 + IndexOf(AsciiC, c)
    ELSE IF c \in Range(AsciiD) THEN 96 + IndexOf(AsciiD, c)
    ELSE 233    \* 'é'


\* Python's order of two strings: by code point, a proper prefix first
RECURSIVE StrLess(_, _)
StrLess(a, b) ==
    IF b = << >> THEN FALSE
    ELSE IF a = << >> THEN TRUE
    ELSE IF Head(a) # Head(b) THEN Ord(Head(a)) < Ord(Head(b))
    ELSE StrLess(Tail(a), Tail(b))

\* sorted(set of strings)
RECURSIVE Sorted(_)
Sorted(S) ==
    IF S = {} THEN << >>
    ELSE LET least == CHOOSE x \in S : \A y \in S \ {x} : StrLess(x, y)
         IN  <<least>> \o Sorted(S \ {least})

\* the character classes of EMAIL_REGEX
\* \w: the ASCII word characters and, of the others, 'é'
WordChars == Letters \cup Digits \cup {"_", "é"}
LocalChars == Letters \cup Digits \cup {".", "_", "%", "+", "-"}  \* [A-Za-z0-9._%+-]
DomainChars == Letters \cup Digits \cup {".", "-"}               \* [A-Za-z0-9.-]

IsWordAt(s, i) == i \in DOMAIN s /\ s[i] \in WordChars

\* \b between positions i-1 and i
Boundary(s, i) == IsWordAt(s, i - 1) # IsWordAt(s, i)

\* the last position of the longest run of characters of C that starts at i
\* (i - 1 when s[i] is not in C)
RECURSIVE RunEnd(_, _, _)
RunEnd(s, i, C) ==
    IF i \in DOMAIN s /\ s[i] \in C THEN RunEnd(s, i + 1, C) ELSE i - 1

\* with "@" at position at: the positions k of the "\." of the pattern from
\* which \.[A-Za-z]{2,}\b matches, after a non-empty [A-Za-z0-9.-]+
DotChoices(s, at) ==
    { k \in (at + 2)..RunEnd(s, at + 1, DomainChars) :
        /\ s[k] = "."
        /\ RunEnd(s, k + 1, Letters) >= k + 2
        /\ Boundary(s, RunEnd(s, k + 1, Letters) + 1) }

\* the last position of the match of EMAIL_REGEX that starts at i, 0 when
\* there is none.  [A-Za-z0-9.-]+ is greedy: the rightmost "\." that lets the
\* rest match is taken.
MatchEnd(s, i) ==
    LET at == RunEnd(s, i, LocalChars) + 1
    IN  IF /\ Boundary(s, i)
           /\ at > i
           /\ at \in DOMAIN s
           /\ s[at] = "@"
           /\ DotChoices(s, at) # {}
        THEN LET k == CHOOSE x \in DotChoices(s, at) : \A y \in DotChoices(s, at) : y <= x
             IN  RunEnd(s, k + 1, Letters)
        ELSE 0

\* EMAIL_REGEX.findall(text): the non-overlapping matches from left to right
RECURSIVE FindAllFrom(_, _)
FindAllFrom(s, i) ==
    IF i > Len(s) THEN << >>
    ELSE IF MatchEnd(s, i) > 0
         THEN <<SubSeq(s, i, MatchEnd(s, i))>> \o FindAllFrom(s, MatchEnd(s, i) + 1)
         ELSE FindAllFrom(s, i + 1)

findall(s) == FindAllFrom(s, 1)

ImageExts == { <<".","p","n","g">>, <<".","j","p","g">>, <<".","j","p","e","g">>,
               <<".","g","i","f">>, <<".","w","e","b","p">> }

\* whether a match is dropped: e.lower().endswith(<the image extensions>)
MutIsImageName(e) == \E x \in ImageExts : EndsWith(e, x)
IsImageName(e) == \E x \in ImageExts : EndsWith(Lower(e), x)

extract_emails_from_text(text) ==
    Sorted({ e \in Range(findall(text)) : ~IsImageName(e) })

MaxTokens == 4

T_EMAIL == <<"a","@","b",".","c","o","m">>
T_IMAGE == <<"i","@","2","x",".","p","n","g">>
T_UPEXT == <<".","P","N","G">>
T_PATH == <<"/","l",".","p","n","g">>

\* pieces of page text; a text is up to MaxTokens of them in a row
Tokens == { T_EMAIL, T_IMAGE, T_UPEXT, T_PATH, <<" ">>, <<"_">>, <<"@">>, <<"z">> }

RECURSIVE Concat(_)
Concat(ss) == IF ss = << >> THEN << >> ELSE Head(ss) \o Concat(Tail(ss))

\* 'contact: sales@example.com, see logo@cdn.example.com/logo.png'
ExampleText ==
    <<"c","o","n","t","a","c","t",":"," ","s","a","l",
      "e","s","@","e","x","a","m","p","l","e",".","c",
      "o","m",","," ","s","e","e"," ","l","o","g","o",
      "@","c","d","n",".","e","x","a","m","p","l","e",
      ".","c","o","m","/","l","o","g","o",".","p","n",
      "g">>
SALES == <<"s","a","l","e","s","@","e","x","a","m","p","l",
      "e",".","c","o","m">>
LOGO_CDN == <<"l","o","g","o","@","c","d","n",".","e","x","a",
      "m","p","l","e",".","c","o","m">>

EmailInit ==
    /\ eText \in { Concat(ts) : ts \in SeqsUpTo(Tokens, MaxTokens) } \cup { ExampleText }
    /\ eOut = << >>
    /\ ePhase = "text"
    /\ MergeIdle
    /\ FilterIdle
    /\ CacheInit
    /\ ScriptIdle

\* lines 330 and 340: the e-mails of a page are extracted
Extract ==
    /\ ePhase = "text"
    /\ eOut' = extract_emails_from_text(eText)
    /\ ePhase' = "done"
    /\ UNCHANGED <<eText, mvars, fvars, cvars, ovars, svars>>

EmailNext == Extract

SpecEmail == EmailInit /\ [][EmailNext]_vars

\* a match that itself ends, case-insensitively, in an image extension
EndsInImageExt(e) == \E x \in ImageExts : HasSuffix(Lower(e), x)

\* C10 as stated: for the example text the result is [sales@example.com],
\* the token followed by "/logo.png" contributing no entry.
C10_AsStated ==
    (ePhase = "done" /\ eText = ExampleText) => eOut = <<SALES>>

\* C10, amended: the result is strictly ascending in code-point order (sorted,
\* no duplicates) and holds exactly the matches of the pattern that do not
\* themselves end in an image extension; a token followed by an asset path
\* matches up to the path and is kept, so the example text yields
\* [logo@cdn.example.com, sales@example.com].
C10_EmailFiltering ==
    ePhase = "done" =>
        /\ \A i \in 1..(Len(eOut) - 1) : StrLess(eOut[i], eOut[i + 1])
        /\ Range(eOut) = { e \in Range(findall(eText)) : ~EndsInImageExt(e) }
        /\ eText = ExampleText => eOut = <<LOGO_CDN, SALES>>

\* a match ending in an image extension was dropped and another match kept
C10_Witness ==
    /\ ePhase = "done"
    /\ eOut # << >>
    /\ \E e \in Range(findall(eText)) : EndsInImageExt(e) /\ e \notin Range(eOut)

----------------------------------------------------------------------------
(* The cache tables and the page fetcher *)

MaxTicks == 3

\* cache_get_page / cache_get_robots / cache_get_emails: the row of a key,
\* as a list of no row or one row
cache_get(table, key) == IF key \in DOMAIN table THEN <<table[key]>> ELSE << >>

\* INSERT OR REPLACE
cache_put(table, key, row) ==
    [k \in DOMAIN table \cup {key} |-> IF k = key THEN row ELSE table[k]]

\* (now - ts) < CACHE_TTL_SECONDS
MutFresh(ts, t) == TRUE
Fresh(ts, t) == (t - ts) < CACHE_TTL_SECONDS

\* A page: the e-mail bearing text, the first PHONE_REGEX match, the hrefs of
\* its <a> elements and the name extract_company_name finds in it.
NoHtml == [text |-> NoStr, phone |-> NoStr, hrefs |-> {}, name |-> NoStr]

Sleep == [ev |-> "sleep", url |-> NoUrl]
Get(url) == [ev |-> "get", url |-> url]

\* the response of requests.get: kind "raise" (an exception), "notok" (a
\* response that is not ok) or "ok", with its text
Truthy(r) == r.kind = "ok"

\* safe_get(url) at time t, the network answering resp:
\* [r: the response (kind "raise" for None), pages: the table, events]
safe_get(url, pages, t, resp) ==
    LET row == cache_get(pages, url)
    IN  IF /\ row # << >>
           /\ row[1].html # NoHtml
           /\ row[1].ts # 0
           /\ Fresh(row[1].ts, t)
        THEN [r |-> [kind |-> "ok", html |-> row[1].html], pages |-> pages, events |-> << >>]
        ELSE [r |-> resp,
              pages |-> IF resp.kind = "ok" /\ resp.html # NoHtml
                        THEN cache_put(pages, url, [html |-> resp.html, ts |-> t])
                        ELSE pages,
              events |-> <<Get(url)>>]

\* the clock advances, by a second or by a second less than the TTL
Tick ==
    /\ pc \in {"idle", "harness"}
    /\ ticks < MaxTicks
    /\ \E d \in {1, CACHE_TTL_SECONDS - 1} : now' = now + d
    /\ ticks' = ticks + 1
    /\ UNCHANGED <<cache_pages, cache_robots, cache_emails, ovars, svars, mvars, fvars, evars>>

MaxWeeks == 1

\* between two calls the cached rows grow older than the TTL
Week ==
    /\ pc \in {"idle", "harness"}
    /\ runs > 0
    /\ ticks < MaxWeeks
    /\ now' = now + CACHE_TTL_SECONDS
    /\ ticks' = ticks + 1
    /\ UNCHANGED <<cache_pages, cache_robots, cache_emails, ovars, svars, mvars, fvars, evars>>

\* what is_allowed_by_robots answered for url
Verdict(url, allowed) == [ev |-> IF allowed THEN "allowed" ELSE "denied", url |-> url]

\* the sleeps and network requests among events
Traffic(events) ==
    LET OnWire(e) == e.ev \in {"sleep", "get", "post"} IN SelectSeq(events, OnWire)

\* the last event after a step that issued `events`
LastOf(events, before) ==
    IF Traffic(events) = << >> THEN before ELSE Traffic(events)[Len(Traffic(events))].ev

----------------------------------------------------------------------------
(* Pages and sites *)

P_ROOT == <<"/">>
P_CONTACT == <<"/","c","o","n","t","a","c","t">>
P_CONTACT_US == <<"/","c","o","n","t","a","c","t","-","u","s">>
P_ABOUT == <<"/","a","b","o","u","t">>
P_SHOP == <<"/","s","h","o","p">>
PHONE_1 == <<"3","0","5","-","5","5","5","-","1","2","3","4">>
NAME_ACME == <<"A","c","m","e">>
NAME_TILE == <<"T","i","l","e"," ","C","o">>

Url(scheme, auth, path) == [scheme |-> scheme, auth |-> auth, path |-> path, query |-> NoStr]

\* 'a@x.com'
E_AX == <<"a","@","x",".","c","o","m">>
\* 'b@y.org'
E_BY == <<"b","@","y",".","o","r","g">>
\* '.b@y.org': what EMAIL_REGEX finds in 'é.b@y.org'; no full match of it
E_DOT == <<".","b","@","y",".","o","r","g">>

HOME_URL == Url("http", A_COM, P_ROOT)

\* a home page with an address, a phone and two links
HTML_HOME ==
    [text  |-> E_AX \o <<" ","é">> \o E_DOT \o <<" ">> \o T_IMAGE,
     phone |-> PHONE_1,
     hrefs |-> { Url("", NoStr, P_SHOP), Url("https", FB_COM, P_ABOUT) },
     name  |-> NAME_ACME]
\* a page without address, phone or link
HTML_PLAIN ==
    [text |-> <<"h","i">>, phone |-> NoStr, hrefs |-> {}, name |-> NAME_TILE]
\* a contact page with one address
HTML_CONTACT ==
    [text  |-> <<"m","a","i","l",":"," ">> \o E_BY,
     phone |-> NoStr,
     hrefs |-> {},
     name  |-> NoStr]

Htmls == { HTML_HOME, HTML_PLAIN, HTML_CONTACT }

\* what the network may answer to a GET of a page
Responses ==
    { [kind |-> "raise", html |-> NoHtml],
      [kind |-> "notok", html |-> NoHtml],
      [kind |-> "ok",    html |-> NoHtml] }
    \cup { [kind |-> "ok", html |-> h] : h \in Htmls }

----------------------------------------------------------------------------
(* Harness of the page fetcher *)

FetchUrls == { HOME_URL, Url("http", A_COM, P_CONTACT) }

FetchInit ==
    /\ CacheInit
    /\ pc = "harness"
    /\ leads_df = << >>
    /\ runs = 0
    /\ enable_mx = FALSE
    /\ caller = "harness"
    /\ crawl = NoCrawl
    /\ job = NoJob
    /\ MergeIdle
    /\ FilterIdle
    /\ EmailIdle

\* one call of safe_get
FetchCall ==
    /\ pc = "harness"
    /\ \E url \in FetchUrls, resp \in Responses :
         LET g == safe_get(url, cache_pages, now, resp)
         IN  /\ cache_pages' = g.pages
             /\ trace' = g.events
             /\ lastEvt' = LastOf(trace, lastEvt)
             /\ ret' = [fn |-> "safe_get", url |-> url, at |-> now, resp |-> resp,
                        before |-> cache_get(cache_pages, url), r |-> g.r]
    /\ UNCHANGED <<now, ticks, cache_robots, cache_emails, svars, mvars, fvars, evars>>

FetchNext == FetchCall \/ Tick

SpecFetch == FetchInit /\ [][FetchNext]_vars

GetsIn(events) == { events[i].url : i \in { j \in DOMAIN events : events[j].ev = "get" } }

\* C1: a safe_get of a URL whose page is cached with timestamp t returns the
\* cached body without a network GET when now - t < TTL; when now - t > TTL
\* it issues a network GET, and a successful non-empty body overwrites the
\* entry with the new timestamp.
C1_PageCacheTTL ==
    (ret.fn = "safe_get" /\ ret.before # << >>) =>
        LET t == ret.before[1].ts
        IN  /\ ret.at - t < CACHE_TTL_SECONDS =>
                /\ ret.r = [kind |-> "ok", html |-> ret.before[1].html]
                /\ GetsIn(trace) = {}
                /\ cache_pages[ret.url] = ret.before[1]
            /\ ret.at - t > CACHE_TTL_SECONDS =>
                /\ GetsIn(trace) = {ret.url}
                /\ ret.r = ret.resp
                /\ (ret.resp.kind = "ok" /\ ret.resp.html # NoHtml) =>
                       cache_pages[ret.url] = [html |-> ret.resp.html, ts |-> ret.at]

\* an entry one second short of the TTL was served from the cache
C1_Witness ==
    /\ ret.fn = "safe_get"
    /\ ret.before # << >>
    /\ ret.at - ret.before[1].ts = CACHE_TTL_SECONDS - 1
    /\ ret.resp.kind = "ok"
    /\ ret.resp.html # ret.before[1].html
    /\ ret.r.html = ret.before[1].html
    /\ trace = << >>

\* an entry one second past the TTL was fetched again and overwritten
C1_WitnessStale ==
    /\ ret.fn = "safe_get"
    /\ ret.before # << >>
    /\ ret.at - ret.before[1].ts = CACHE_TTL_SECONDS + 1
    /\ ret.resp.kind = "ok"
    /\ ret.resp.html \notin {NoHtml, ret.before[1].html}
    /\ cache_pages[ret.url] = [html |-> ret.resp.html, ts |-> ret.at]

----------------------------------------------------------------------------
(* robots.txt handling *)

\* The text of a robots.txt is modelled by the Disallow paths of the group
\* that applies to UA_STR, in order; the empty text has none.  A "Disallow:"
\* with no path allows everything.
NoRobots == << >>
ROBOTS_ALLOW_ALL == << NoStr >>
ROBOTS_DENY_ALL == << P_ROOT >>
ROBOTS_DENY_CONTACT == << P_CONTACT >>

RobotsTexts == { ROBOTS_ALLOW_ALL, ROBOTS_DENY_ALL, ROBOTS_DENY_CONTACT }

\* what the network may answer to the GET of robots.txt
RobotsResponses ==
    { [kind |-> "raise", content |-> NoRobots],
      [kind |-> "notok", content |-> ROBOTS_DENY_ALL],
      [kind |-> "ok",    content |-> NoRobots] }
    \cup { [kind |-> "ok", content |-> c] : c \in RobotsTexts }

\* f"https://{host}/robots.txt"
robots_url(host) == Url("https", host, <<"/","r","o","b","o","t","s",".","t","x","t">>)

\* fetch_robots_for_host(host, delay_s) at time t, the network answering resp
MutFetchRobots(host, robots, t, resp) ==
    LET row == cache_get(robots, host)
    IN  IF /\ row # << >>
           /\ row[1].content # NoRobots
           /\ row[1].ts # 0
           /\ Fresh(row[1].ts, t)
        THEN [content |-> row[1].content, robots |-> robots, events |-> << >>]
        ELSE LET text == IF resp.kind # "raise" THEN resp.content ELSE NoRobots
             IN  [content |-> text,
                  robots |-> cache_put(robots, host, [content |-> text, ts |-> t]),
                  events |-> <<Sleep, Get(robots_url(host))>>]
fetch_robots_for_host(host, robots, t, resp) ==
    LET row == cache_get(robots, host)
    IN  IF /\ row # << >>
           /\ row[1].content # NoRobots
           /\ row[1].ts # 0
           /\ Fresh(row[1].ts, t)
        THEN [content |-> row[1].content, robots |-> robots, events |-> << >>]
        ELSE LET text == IF resp.kind = "ok" THEN resp.content ELSE NoRobots
             IN  [content |-> text,
                  robots |-> cache_put(robots, host, [content |-> text, ts |-> t]),
                  events |-> <<Sleep, Get(robots_url(host))>>]

\* the path RobotFileParser.can_fetch tests: path and query, "/" when empty
RobotsTarget(url) ==
    LET p == urlparse(url)
        t == p.path \o (IF p.query = NoStr THEN NoStr ELSE <<"?">> \o p.query)
    IN  IF t = NoStr THEN P_ROOT ELSE t

\* RobotFileParser.parse and can_fetch: the first rule line whose path starts
\* the target decides; a rule line with an empty path allows
RECURSIVE can_fetch(_, _)
can_fetch(content, url) ==
    IF content = << >> THEN TRUE
    ELSE IF StartsWith(RobotsTarget(url), Head(content)) THEN Head(content) = NoStr
    ELSE can_fetch(Tail(content), url)

\* is_allowed_by_robots(url, delay_s) at time t; env = [resp: the answer to
\* a GET of robots.txt, raises: whether rp.parse or rp.can_fetch raises]
is_allowed_by_robots(url, robots, t, env) ==
    IF urlparse_raises(url)
    THEN [allowed |-> TRUE, robots |-> robots, events |-> << >>, content |-> NoRobots]
    ELSE LET f == fetch_robots_for_host(urlparse(url).netloc, robots, t, env.resp)
         IN  [allowed |-> IF f.content = NoRobots THEN TRUE
                          ELSE IF env.raises THEN TRUE
                          ELSE can_fetch(f.content, url),
              robots |-> f.robots,
              events |-> f.events,
              content |-> f.content]

RobotsEnvs == [resp : RobotsResponses, raises : BOOLEAN]

----------------------------------------------------------------------------
(* Harness of the robots checker *)

RobotsUrls ==
    { HOME_URL,
      Url("http", A_COM, P_CONTACT_US),
      Url("http", BAD_AUTH, P_ROOT) }

\* one call of is_allowed_by_robots
RobotsCall ==
    /\ pc = "harness"
    /\ \E url \in RobotsUrls, env \in RobotsEnvs :
         LET a == is_allowed_by_robots(url, cache_robots, now, env)
         IN  /\ cache_robots' = a.robots
             /\ trace' = a.events
             /\ lastEvt' = LastOf(trace, lastEvt)
             /\ ret' = [fn |-> "is_allowed_by_robots", url |-> url, at |-> now, env |-> env,
                        before |-> IF urlparse_raises(url) THEN << >>
                                   ELSE cache_get(cache_robots, urlparse(url).netloc),
                        content |-> a.content, allowed |-> a.allowed]
    /\ UNCHANGED <<now, ticks, cache_pages, cache_emails, svars, mvars, fvars, evars>>

RobotsNext == RobotsCall \/ Tick

SpecRobots == FetchInit /\ [][RobotsNext]_vars

\* a robots policy is cached for the call, non-empty and younger than the TTL
FreshPolicy(before, at) ==
    /\ before # << >>
    /\ before[1].content # NoRobots
    /\ at - before[1].ts < CACHE_TTL_SECONDS

\* C5: when no fresh non-empty policy is cached and the fetch of robots.txt
\* raises, is not ok or yields empty content, the checker returns true; when
\* parsing or evaluating the policy raises it returns true as well.  (A call
\* always ends with a verdict: ret.allowed is a Boolean.)
C5_RobotsFailOpen ==
    ret.fn = "is_allowed_by_robots" =>
        /\ ret.allowed \in BOOLEAN
        /\ (/\ ~FreshPolicy(ret.before, ret.at)
            /\ \/ ret.env.resp.kind \in {"raise", "notok"}
               \/ ret.env.resp.content = NoRobots) => ret.allowed
        /\ ret.env.raises => ret.allowed
        /\ urlparse_raises(ret.url) => ret.allowed

\* robots.txt answered "not ok" with a body that forbids everything, and the
\* URL was allowed
C5_Witness ==
    /\ ret.fn = "is_allowed_by_robots"
    /\ ~FreshPolicy(ret.before, ret.at)
    /\ ret.env.resp = [kind |-> "notok", content |-> ROBOTS_DENY_ALL]
    /\ ~ret.env.raises
    /\ GetsIn(trace) # {}
    /\ ret.allowed

\* a policy, empty or not, was stored for the host less than a TTL ago
StoredWithinTTL(before, at) ==
    /\ before # << >>
    /\ at - before[1].ts < CACHE_TTL_SECONDS

\* C14 (as stated): once a policy was stored for a host, the empty policy of
\* a missing or failed robots.txt included, every robots check for that host
\* less than a TTL later is answered from the cache: robots.txt is not
\* fetched and there is no politeness sleep.
C14_StoredPolicyReused ==
    (ret.fn = "is_allowed_by_robots" /\ StoredWithinTTL(ret.before, ret.at)) => trace = << >>

\* a non-empty policy stored less than a TTL ago is reused: no sleep, no fetch
C14_NonEmptyPolicyReused ==
    (ret.fn = "is_allowed_by_robots" /\ FreshPolicy(ret.before, ret.at)) => trace = << >>

\* an empty policy was stored for a.com one tick ago, and the check slept
\* and fetched https://a.com/robots.txt again
C14_EmptyPolicyRefetched ==
    /\ ret.fn = "is_allowed_by_robots"
    /\ ret.url = HOME_URL
    /\ ret.before # << >>
    /\ ret.before[1].content = NoRobots
    /\ ret.before[1].ts = ret.at - 1
    /\ trace = <<Sleep, Get(robots_url(A_COM))>>

----------------------------------------------------------------------------
(* E-mail verification *)

\* is_valid_email_syntax: EMAIL_REGEX.fullmatch(email) is not None
is_valid_email_syntax(e) ==
    LET at == RunEnd(e, 1, LocalChars) + 1
    IN  /\ e # NoStr
        /\ Boundary(e, 1)
        /\ at > 1
        /\ at \in DOMAIN e
        /\ e[at] = "@"
        /\ \E k \in (at + 2)..(Len(e) - 2) :
              /\ e[k] = "."
              /\ RunEnd(e, at + 1, DomainChars) >= k - 1
              /\ RunEnd(e, k + 1, Letters) = Len(e)

\* email.split("@", 1)[1].lower()
AfterAt(e) ==
    LET at == CHOOSE i \in DOMAIN e : e[i] = "@" /\ \A j \in 1..(i - 1) : e[j] # "@"
    IN  Lower(SubSeq(e, at + 1, Len(e)))

\* mx_lookup(domain_name), mx being the domains whose MX records resolve
\* (none when dnspython is missing or the lookup raises)
mx_lookup(domain_name, mx) == domain_name \in mx

\* verify_email(email, do_mx): [ok, mx_dom]
verify_email(email, do_mx, mx) ==
    IF ~is_valid_email_syntax(email) THEN [ok |-> FALSE, mx_dom |-> NoStr]
    ELSE IF do_mx THEN [ok |-> mx_lookup(AfterAt(email), mx), mx_dom |-> AfterAt(email)]
    ELSE [ok |-> TRUE, mx_dom |-> NoStr]

\* the verification loop (lines 310-317 and 347-354) from position i on:
\* [verified_emails, mx_domain]
RECURSIVE VerifyFrom(_, _, _, _, _)
VerifyFrom(list, i, do_mx, mx, acc) ==
    IF i > Len(list) THEN acc
    ELSE LET v == verify_email(list[i], do_mx, mx)
         IN  VerifyFrom(list, i + 1, do_mx, mx,
                 IF v.ok
                 THEN [verified_emails |-> Append(acc.verified_emails, list[i]),
                       mx_domain |-> IF v.mx_dom # NoStr THEN v.mx_dom ELSE acc.mx_domain]
                 ELSE acc)

VerifyAll(list, do_mx, mx) ==
    VerifyFrom(list, 1, do_mx, mx, [verified_emails |-> << >>, mx_domain |-> NoStr])

\* what crawl_for_emails returns for a fresh contact-set row (line 318)
MutCachedResult(row, do_mx, mx) ==
    LET v == VerifyAll(row.emails, do_mx, mx)
    IN  [emails |-> Sorted(Range(row.emails)),
         phone |-> row.phone,
         any_verified |-> Len(v.verified_emails) > 0,
         mx_domain |-> v.mx_domain]
CachedResult(row, do_mx, mx) ==
    LET v == VerifyAll(row.emails, do_mx, mx)
    IN  [emails |-> Sorted(Range(IF v.verified_emails # << >> THEN v.verified_emails
                                 ELSE row.emails)),
         phone |-> row.phone,
         any_verified |-> Len(v.verified_emails) > 0,
         mx_domain |-> v.mx_domain]

\* what crawl_for_emails returns after a crawl (lines 346-358)
FreshResult(emails_list, phone, do_mx, mx) ==
    LET v == VerifyAll(emails_list, do_mx, mx)
    IN  IF v.verified_emails # << >>
        THEN [emails |-> Sorted(Range(v.verified_emails)), phone |-> phone,
              any_verified |-> TRUE, mx_domain |-> v.mx_domain]
        ELSE [emails |-> emails_list, phone |-> phone,
              any_verified |-> FALSE, mx_domain |-> v.mx_domain]

EmptyResult == [emails |-> << >>, phone |-> NoStr, any_verified |-> FALSE, mx_domain |-> NoStr]

----------------------------------------------------------------------------
(* Likely contact pages *)

\* whether sub occurs in s
Contains(s, sub) ==
    \E i \in 1..(Len(s) - Len(sub) + 1) : SubSeq(s, i, i + Len(sub) - 1) = sub

\* the text of an href after its scheme
HrefText(h) == h.auth \o h.path \o h.query

\* the path of a base URL up to and with its last "/"
RECURSIVE DirOf(_)
DirOf(path) ==
    IF path = NoStr THEN P_ROOT
    ELSE IF path[Len(path)] = "/" THEN path
    ELSE DirOf(SubSeq(path, 1, Len(path) - 1))

\* urllib.parse.urljoin(base, href): an href with a scheme stands as it is, one
\* that starts with "/" replaces the path, another is put after the
\* directory of the base path
urljoin(base, h) ==
    IF h.scheme # "" THEN h
    ELSE IF HrefText(h) = NoStr THEN base
    ELSE IF StartsWith(h.auth \o h.path, P_ROOT)
         THEN [scheme |-> base.scheme, auth |-> base.auth,
               path |-> h.auth \o h.path, query |-> h.query]
         ELSE [scheme |-> base.scheme, auth |-> base.auth,
               path |-> DirOf(base.path) \o h.auth \o h.path, query |-> h.query]

ContactKeys == { <<"c","o","n","t","a","c","t">>, <<"c","o","n","t","a","c","t","-","u","s">>,
                 <<"a","b","o","u","t">>, <<"t","e","a","m">> }

FallbackSuffixes == { P_CONTACT, P_CONTACT_US, P_ABOUT }

MaxContactPages == 6

\* the set `pages` of find_likely_contact_pages before it is cut
ContactPageSet(base_url, html) ==
    { urljoin(base_url, h) :
        h \in { x \in html.hrefs : \E key \in ContactKeys : Contains(Lower(HrefText(x)), key) } }
    \cup { urljoin(base_url, Url("", NoStr, suffix)) : suffix \in FallbackSuffixes }

\* list(S): the elements of a set in the order the set happens to iterate,
\* which the hashes of the strings decide; every order is a possible result
RECURSIVE ListsOf(_)
ListsOf(S) ==
    IF S = {} THEN { << >> }
    ELSE UNION { { <<x>> \o l : l \in ListsOf(S \ {x}) } : x \in S }

\* line 230: the lists that list(pages)[:6] can be
ContactPageLists(base_url, html) ==
    { SubSeq(l, 1, IF Len(l) < MaxContactPages THEN Len(l) ELSE MaxContactPages) :
        l \in ListsOf(ContactPageSet(base_url, html)) }

\* find_likely_contact_pages, for a caller that only iterates over the
\* result: the pages of each list it can return
find_likely_contact_pages(base_url, html) ==
    { Range(l) : l \in ContactPageLists(base_url, html) }

\* extract_phone(html)
extract_phone(html) == html.phone

----------------------------------------------------------------------------
(* Harness of find_likely_contact_pages *)

P_TEAM == <<"/","t","e","a","m">>

\* the links a homepage may carry: one that matches no key, one that is a
\* fallback already, and four matching ones that are no fallback
PageLinks ==
    { Url("", NoStr, P_SHOP), Url("", NoStr, P_ABOUT), Url("", NoStr, P_TEAM),
      Url("https", FB_COM, P_ABOUT), Url("https", FB_COM, P_CONTACT),
      Url("https", FB_COM, P_CONTACT_US) }

\* find_likely_contact_pages is called once on a homepage with some of the
\* links; the function keeps no state, so one call shows all it can do
PagesCall ==
    /\ pc = "harness"
    /\ ret = NoRet
    /\ \E hrefs \in SUBSET PageLinks :
         LET html == [HTML_PLAIN EXCEPT !.hrefs = hrefs]
         IN  \E l \in ContactPageLists(HOME_URL, html) :
               ret' = [fn |-> "find_likely_contact_pages", base_url |-> HOME_URL,
                       html |-> html, pages |-> l]
    /\ UNCHANGED <<trace, lastEvt, cvars, svars, mvars, fvars, evars>>

PagesNext == PagesCall

SpecPages == FetchInit /\ [][PagesNext]_vars

\* the fallback URLs of a base URL
Fallbacks(base_url) == { urljoin(base_url, Url("", NoStr, suffix)) : suffix \in FallbackSuffixes }

\* the links of a page that match a key, resolved
MatchingLinks(base_url, html) ==
    { urljoin(base_url, h) :
        h \in { x \in html.hrefs : \E key \in ContactKeys : Contains(Lower(HrefText(x)), key) } }

IsPagesReturn == ret # NoRet /\ ret.fn = "find_likely_contact_pages"

\* the result has at most six entries, no two alike
C13_AtMostSixDistinct ==
    IsPagesReturn =>
      /\ Len(ret.pages) <= MaxContactPages
      /\ \A i, j \in DOMAIN ret.pages : ret.pages[i] = ret.pages[j] => i = j

\* C13 (as stated): find_likely_contact_pages returns at most six pairwise
\* distinct resolved URLs, and /contact, /contact-us and /about of the base
\* URL are always among them, also when the page has more than three
\* distinct matching links.
C13_FallbacksAlwaysThere ==
    /\ C13_AtMostSixDistinct
    /\ IsPagesReturn => Fallbacks(ret.base_url) \subseteq Range(ret.pages)

\* a page with four matching links besides the fallbacks: the six URLs
\* returned leave out http://a.com/contact
C13_FallbackDropped ==
    /\ IsPagesReturn
    /\ Cardinality(MatchingLinks(ret.base_url, ret.html) \ Fallbacks(ret.base_url)) > 3
    /\ Len(ret.pages) = MaxContactPages
    /\ Url("http", A_COM, P_CONTACT) \notin Range(ret.pages)

----------------------------------------------------------------------------
(* crawl_for_emails, step by step *)

MaxRuns == 2

\* the domains that may have MX records
MxDomains == { AfterAt(E_AX), AfterAt(E_BY) }

\* the sets of domains whose MX records may resolve; no lookup, MX off
MxWorlds == IF enable_mx THEN SUBSET MxDomains ELSE { {} }

\* what the network answers while a site is crawled
CrawlRobotsEnvs(url) ==
    { [resp |-> [kind |-> "raise", content |-> NoRobots], raises |-> FALSE],
      [resp |-> [kind |-> "ok", content |-> ROBOTS_DENY_ALL], raises |-> FALSE] }
    \cup (IF url.auth = A_COM
          THEN { [resp |-> [kind |-> "ok", content |-> ROBOTS_DENY_CONTACT], raises |-> FALSE] }
          ELSE {})
HomeResponses ==
    { [kind |-> "raise", html |-> NoHtml],
      [kind |-> "ok", html |-> NoHtml],
      [kind |-> "ok", html |-> HTML_HOME],
      [kind |-> "ok", html |-> HTML_PLAIN] }
\* the site map: what a GET of a likely contact page answers
PageResponses(p) ==
    IF p.path = P_CONTACT THEN { [kind |-> "ok", html |-> HTML_CONTACT] }
    ELSE { [kind |-> "notok", html |-> NoHtml] }

\* the return of crawl_for_emails to its caller
Return(result, E, cached, mx) ==
    /\ ret' = [fn |-> "crawl_for_emails", start |-> crawl.start, do_mx |-> enable_mx,
               mx |-> mx, cached |-> cached, E |-> E, result |-> result]
    /\ pc' = IF caller = "pipeline" THEN "row" ELSE "harness"

\* a variant that takes a cached empty list for a miss
MutHasContactSet(row, t) ==
    row # << >> /\ row[1].emails # << >> /\ row[1].ts # 0 /\ Fresh(row[1].ts, t)

\* line 308: a contact set is cached for the URL and is fresh; the list and
\* the phone of a row are never None, an empty list and "" included
HasContactSet(row, t) == row # << >> /\ row[1].ts # 0 /\ Fresh(row[1].ts, t)

\* lines 306-325: the contact-set cache is read; on a miss robots.txt is
\* asked about start_url
CrawlEnter ==
    /\ pc = "crawl"
    /\ LET row == cache_get(cache_emails, crawl.start)
       IN  IF HasContactSet(row, now)
           THEN /\ \E mx \in MxWorlds :
                     Return(CachedResult(row[1], enable_mx, mx), row[1].emails, TRUE, mx)
                /\ trace' = << >>
                /\ UNCHANGED <<cache_robots, crawl>>
           ELSE \E env \in CrawlRobotsEnvs(crawl.start) :
                  LET a == is_allowed_by_robots(crawl.start, cache_robots, now, env)
                  IN  /\ cache_robots' = a.robots
                      /\ trace' = a.events \o <<Verdict(crawl.start, a.allowed)>>
                      /\ crawl' = [crawl EXCEPT !.emails = {}, !.phone = NoStr]
                      /\ IF a.allowed
                         THEN /\ pc' = "crawl_home"
                              /\ UNCHANGED ret
                         ELSE Return(EmptyResult, << >>, FALSE, {})
    /\ lastEvt' = LastOf(trace, lastEvt)
    /\ UNCHANGED <<now, ticks, cache_pages, cache_emails, leads_df, runs, enable_mx, caller, job,
                   mvars, fvars, evars>>

\* lines 327-334: the homepage is fetched and searched
CrawlHome ==
    /\ pc = "crawl_home"
    /\ \E resp \in HomeResponses :
         LET g == safe_get(crawl.start, cache_pages, now, resp)
         IN  /\ cache_pages' = g.pages
             /\ trace' = g.events
             /\ IF Truthy(g.r)
                THEN \E pages \in find_likely_contact_pages(crawl.start, g.r.html) :
                       crawl' = [crawl EXCEPT
                                   !.emails = @ \cup Range(extract_emails_from_text(g.r.html.text)),
                                   !.phone = IF extract_phone(g.r.html) # NoStr
                                             THEN extract_phone(g.r.html) ELSE @,
                                   !.pages = pages]
                ELSE crawl' = [crawl EXCEPT !.pages = {}]
    /\ pc' = "crawl_pages"
    /\ lastEvt' = LastOf(trace, lastEvt)
    /\ UNCHANGED <<now, ticks, cache_robots, cache_emails, ret, leads_df, runs, enable_mx, caller, job,
                   mvars, fvars, evars>>

\* a variant that fetches the page whatever robots.txt answered
MutSkipsPage(a) == FALSE

\* lines 335-336: a likely contact page that robots.txt denies is passed over
SkipsPage(a) == ~a.allowed

\* lines 334-341: one likely contact page
CrawlPage ==
    /\ pc = "crawl_pages"
    /\ \E p \in crawl.pages : \E env \in CrawlRobotsEnvs(p), resp \in PageResponses(p) :
         LET a == is_allowed_by_robots(p, cache_robots, now, env)
             g == safe_get(p, cache_pages, now, resp)
         IN  /\ cache_robots' = a.robots
             /\ IF SkipsPage(a)
                THEN /\ trace' = a.events \o <<Verdict(p, a.allowed)>>
                     /\ crawl' = [crawl EXCEPT !.pages = @ \ {p}]
                     /\ UNCHANGED cache_pages
                ELSE /\ trace' = a.events \o <<Verdict(p, a.allowed), Sleep>> \o g.events
                     /\ cache_pages' = g.pages
                     /\ crawl' = IF Truthy(g.r)
                                 THEN [crawl EXCEPT
                                         !.emails = @ \cup Range(extract_emails_from_text(g.r.html.text)),
                                         !.phone = IF extract_phone(g.r.html) # NoStr
                                                   THEN extract_phone(g.r.html) ELSE @,
                                         !.pages = @ \ {p}]
                                 ELSE [crawl EXCEPT !.pages = @ \ {p}]
    /\ lastEvt' = LastOf(trace, lastEvt)
    /\ UNCHANGED <<now, ticks, cache_emails, ret, pc, leads_df, runs, enable_mx, caller, job,
                   mvars, fvars, evars>>

\* lines 343-358: the contact set is cached and verified
CrawlEnd ==
    /\ pc = "crawl_pages"
    /\ crawl.pages = {}
    /\ LET emails_list == Sorted(crawl.emails)
       IN  /\ cache_emails' = cache_put(cache_emails, crawl.start,
                                  [emails |-> emails_list, phone |-> crawl.phone, ts |-> now])
           /\ \E mx \in MxWorlds :
                Return(FreshResult(emails_list, crawl.phone, enable_mx, mx), emails_list, FALSE, mx)
    /\ trace' = << >>
    /\ lastEvt' = LastOf(trace, lastEvt)
    /\ UNCHANGED <<now, ticks, cache_pages, cache_robots, leads_df, runs, enable_mx, caller, job,
                   crawl, mvars, fvars, evars>>

----------------------------------------------------------------------------
(* Harness of the site crawler *)

\* crawl_for_emails is called on the site, with the MX check on or off
CrawlCall ==
    /\ pc = "harness"
    /\ runs < MaxRuns
    /\ runs' = runs + 1
    /\ enable_mx' \in BOOLEAN
    /\ crawl' = [NoCrawl EXCEPT !.start = HOME_URL]
    /\ pc' = "crawl"
    /\ ret' = NoRet
    /\ trace' = << >>
    /\ lastEvt' = LastOf(trace, lastEvt)
    /\ UNCHANGED <<cvars, leads_df, caller, job, mvars, fvars, evars>>

CrawlNext == CrawlCall \/ CrawlEnter \/ CrawlHome \/ CrawlPage \/ CrawlEnd \/ Week

SpecCrawl == FetchInit /\ [][CrawlNext]_vars

\* the addresses of ret.E that pass verify_email under the call's MX toggle
Passing == { e \in Range(ret.E) : verify_email(e, ret.do_mx, ret.mx).ok }

\* C6: when crawl_for_emails returns for an e-mail set E, fresh or cached:
\* if some address of E passes verify_email, it returns exactly the sorted
\* passing addresses with anyVerified true; if none passes, all of E sorted
\* with anyVerified false.  With MX off and E = {a@x.com, .b@y.org (bad
\* syntax)} the result is ([a@x.com], phone, true, "").
C6_VerificationFallback ==
    ret.fn = "crawl_for_emails" =>
        /\ Passing # {} => (ret.result.emails = Sorted(Passing) /\ ret.result.any_verified)
        /\ Passing = {} => (ret.result.emails = Sorted(Range(ret.E)) /\ ~ret.result.any_verified)
        /\ (~ret.do_mx /\ Range(ret.E) = {E_AX, E_DOT}) =>
               /\ ret.result.emails = <<E_AX>>
               /\ ret.result.any_verified
               /\ ret.result.mx_domain = NoStr

\* a fresh crawl, MX off, of a set with one well-formed address and one not
C6_Witness ==
    /\ ret.fn = "crawl_for_emails"
    /\ ~ret.cached
    /\ ~ret.do_mx
    /\ ret.E = <<E_DOT, E_AX>>
    /\ ret.result = [emails |-> <<E_AX>>, phone |-> PHONE_1, any_verified |-> TRUE,
                     mx_domain |-> NoStr]

\* a cached set of three addresses of which, MX on, only one passed
C6_WitnessCached ==
    /\ ret.fn = "crawl_for_emails"
    /\ ret.cached
    /\ ret.do_mx
    /\ Range(ret.E) = {E_AX, E_BY, E_DOT}
    /\ ret.result.emails = <<E_BY>>
    /\ ret.result.any_verified

\* a fresh crawl, MX on, none passed: all of E came back unverified
\* the crawl is past the robots check of start_url
PastRobots == pc \in {"crawl_home", "crawl_pages"}

\* a contact set stored for start_url less than a TTL ago
StoredSet == cache_get(cache_emails, crawl.start)

C15_Step ==
    /\ (PastRobots /\ ~PastRobots') =>
         cache_get(cache_emails', crawl.start) =
           << [emails |-> Sorted(crawl.emails), phone |-> crawl.phone, ts |-> now] >>
    /\ (/\ pc = "crawl"
        /\ StoredSet # << >>
        /\ now - StoredSet[1].ts < CACHE_TTL_SECONDS) =>
         /\ trace' = << >>
         /\ UNCHANGED <<cache_pages, cache_robots, cache_emails>>
         /\ ~PastRobots'
         /\ ret' = [ret' EXCEPT !.fn = "crawl_for_emails", !.start = crawl.start,
                                !.do_mx = enable_mx, !.cached = TRUE]
         /\ StoredSet[1].emails = << >> =>
               ret'.result = [emails |-> << >>, phone |-> StoredSet[1].phone,
                              any_verified |-> FALSE, mx_domain |-> NoStr]

\* C15: once crawl_for_emails is past the robots check of start_url it
\* returns only after writing a contact set for start_url, the empty list
\* of an unavailable homepage or of a site without address included; a
\* crawl_for_emails of the same start_url less than a TTL later asks
\* robots.txt nothing, fetches nothing, and for an empty cached list returns
\* ([], cached phone, False, ""), with the MX check on or off.
C15_EmptyCrawlCached == [][C15_Step]_vars

\* the second crawl of http://a.com/, MX check on, was answered from an
\* empty contact set, the homepage never having been fetched
C15_Witness ==
    /\ ret # NoRet
    /\ ret.fn = "crawl_for_emails"
    /\ ret.cached
    /\ ret.do_mx
    /\ ret.E = << >>
    /\ ret.result = EmptyResult
    /\ trace = << >>
    /\ runs = 2
    /\ cache_get(cache_pages, HOME_URL) = << >>
    /\ cache_get(cache_emails, HOME_URL) # << >>
    /\ cache_get(cache_emails, HOME_URL)[1].emails = << >>

C6_WitnessNone ==
    /\ ret.fn = "crawl_for_emails"
    /\ ~ret.cached
    /\ ret.do_mx
    /\ Cardinality(Range(ret.E)) >= 2
    /\ ret.result.emails = ret.E
    /\ ~ret.result.any_verified

----------------------------------------------------------------------------
(* The run: search, filter, crawl, accumulate *)

DDG_URL == Url("https", <<"h","t","m","l",".","d","u","c","k","d","u","c","k","g","o",".","c","o","m">>, <<"/","h","t","m","l","/">>)
BING_URL == Url("https", <<"w","w","w",".","b","i","n","g",".","c","o","m">>, <<"/","s","e","a","r","c","h">>)
GOOGLE_URL == Url("https", <<"w","w","w",".","g","o","o","g","l","e",".","c","o","m">>, <<"/","s","e","a","r","c","h">>)
CONSENT_URL == Url("https", <<"c","o","n","s","e","n","t",".","g","o","o","g","l","e",".","c","o","m">>, <<"/","s","a","v","e">>)

Post(url) == [ev |-> "post", url |-> url]

\* the order in which lines 584-589 call the engines
EngineOrder == <<"duckduckgo", "bing", "google">>

\* the "Search engines to use" selections
EngineChoices == { {"duckduckgo", "bing", "google"}, {"bing"} }

\* the "Queries" text area
Queries == << <<"B","u","i","l","d","e","r","s"," ","M","i","a","m","i"," ","D","a","d","e">> >>

\* the "Deny domains" text area
DenyText == << <<" ">> \o FB_COM_UP, <<"#">> \o A_COM >>

Selected(engines) ==
    LET In(e) == e \in engines IN SelectSeq(EngineOrder, In)

\* links a result page may hold; google_search keeps http(s) targets only
SearchLinks(engine) ==
    CASE engine = "duckduckgo" -> { HOME_URL, Url("ftp", A_COM, P_ROOT) }
      [] engine = "bing" -> { HOME_URL, Url("", A_COM, P_ROOT) }
      [] engine = "google" -> { HOME_URL, Url("https", FB_COM, P_ABOUT) }

\* the request of an engine
Request(engine) ==
    CASE engine = "duckduckgo" -> Post(DDG_URL)
      [] engine = "bing" -> Get(BING_URL)
      [] engine = "google" -> Get(GOOGLE_URL)

\* ddg_search, bing_search, google_search: what they did and what they
\* return; no hit when the request raises or is not ok
SearchOutcomes(engine) ==
    LET results == { << >> } \cup { << [link |-> l, engine |-> engine] >> : l \in SearchLinks(engine) }
    IN  { [events |-> <<Sleep, Request(engine)>>, hits |-> h] : h \in results }
        \cup (IF engine = "google"
              THEN { [events |-> <<Sleep, Request(engine), Sleep, Post(CONSENT_URL)>>, hits |-> h] :
                       h \in results }
              ELSE {})

\* s with every occurrence of sub taken out (str.replace(sub, ""))
RECURSIVE RemoveAll(_, _)
RemoveAll(s, sub) ==
    IF s = << >> THEN << >>
    ELSE IF StartsWith(s, sub) THEN RemoveAll(SubSeq(s, Len(sub) + 1, Len(s)), sub)
    ELSE <<Head(s)>> \o RemoveAll(Tail(s), sub)

\* extract_company_name(html, url)
extract_company_name(html, url) ==
    IF Strip(html.name) # NoStr THEN Strip(html.name)
    ELSE RemoveAll(domain(url), <<"w","w","w",".">>)

COMPETITOR_WORDS == { <<"f","l","o","o","r">>, <<"t","i","l","e">>, <<"c","a","r","p","e","t">> }

looks_like_competitor(name) == \E w \in COMPETITOR_WORDS : Contains(Lower(name), w)

\* DataFrame.drop_duplicates(subset=["Email", "Website"], keep=...)
SamePair(a, b) == a.Email = b.Email /\ a.Website = b.Website

\* the rows at the positions of `keep`, in their order
RECURSIVE KeepFrom(_, _, _)
KeepFrom(rows, i, keep) ==
    IF i > Len(rows) THEN << >>
    ELSE (IF i \in keep THEN <<rows[i]>> ELSE << >>) \o KeepFrom(rows, i + 1, keep)

MutDropDuplicates(rows) ==
    KeepFrom(rows, 1, { i \in DOMAIN rows : \A j \in (i + 1)..Len(rows) : ~SamePair(rows[j], rows[i]) })
drop_duplicates(rows) ==
    KeepFrom(rows, 1, { i \in DOMAIN rows : \A j \in 1..(i - 1) : ~SamePair(rows[j], rows[i]) })

\* lines 649-653: what the session holds after a run with rows new_rows
Accumulate(leads, new_rows) ==
    IF new_rows # << >> THEN drop_duplicates(leads \o new_rows) ELSE leads

\* the script starts with nothing cached and no lead
Init ==
    /\ CacheInit
    /\ pc = "idle"
    /\ leads_df = << >>
    /\ runs = 0
    /\ enable_mx = FALSE
    /\ caller = "pipeline"
    /\ crawl = NoCrawl
    /\ job = NoJob
    /\ fUrl = NoUrl
    /\ fAllowText = << >>
    /\ fDenyText = DenyText
    /\ allow_domains = << >>
    /\ deny_domains = << >>
    /\ fResult = FALSE
    /\ fPhase = "idle"
    /\ MergeIdle
    /\ EmailIdle

\* "Clear Leads" (lines 574-576)
ClearLeads ==
    /\ pc = "idle"
    /\ leads_df' = << >>
    /\ ret' = [fn |-> "clear"]
    /\ trace' = << >>
    /\ lastEvt' = "none"
    /\ UNCHANGED <<cvars, pc, runs, enable_mx, caller, crawl, job, mvars, fvars, evars>>

\* "Run Search": the script reads the sidebar (lines 507-510, 546-547) and
\* enters the run (lines 578-583)
RunSearch ==
    /\ pc = "idle"
    /\ runs < MaxRuns
    /\ runs' = runs + 1
    /\ enable_mx' \in BOOLEAN
    /\ allow_domains' = parse_domain_rules(fAllowText)
    /\ deny_domains' = parse_domain_rules(fDenyText)
    /\ \E include_flooring_companies \in BOOLEAN, engines \in EngineChoices :
         job' = [NoJob EXCEPT !.flooring = include_flooring_companies, !.engines = engines,
                              !.qi = 1, !.todo = Selected(engines)]
    /\ pc' = "search"
    /\ ret' = NoRet
    /\ trace' = << >>
    /\ lastEvt' = "none"
    /\ UNCHANGED <<cvars, leads_df, caller, crawl, fUrl, fAllowText, fDenyText, fResult, fPhase,
                   mvars, evars>>

\* lines 584-589: the next selected engine is asked
Search ==
    /\ pc = "search"
    /\ job.todo # << >>
    /\ \E out \in SearchOutcomes(Head(job.todo)) :
         /\ job' = [job EXCEPT !.todo = Tail(@), !.local_hits = @ \o out.hits]
         /\ trace' = out.events
    /\ lastEvt' = LastOf(trace, lastEvt)
    /\ UNCHANGED <<cvars, ret, pc, leads_df, runs, enable_mx, caller, crawl, mvars, fvars, evars>>

\* lines 591-595 end a query; after the last one lines 598-606 dedupe
\* globally and apply the allow and deny lists
MergeQuery ==
    /\ pc = "search"
    /\ job.todo = << >>
    /\ LET all_hits == job.all_hits \o merge_and_dedupe(job.local_hits)
           Keep(h) == is_allowed_by_lists(h.link)
       IN  IF job.qi < Len(Queries)
           THEN /\ job' = [job EXCEPT !.qi = @ + 1, !.todo = Selected(job.engines),
                                      !.local_hits = << >>, !.all_hits = all_hits]
                /\ pc' = "search"
           ELSE /\ job' = [job EXCEPT !.engines = {}, !.local_hits = << >>, !.all_hits = << >>,
                                      !.hits = SelectSeq(merge_and_dedupe(all_hits), Keep)]
                /\ pc' = "hits"
    /\ trace' = <<Sleep>>
    /\ lastEvt' = LastOf(trace, lastEvt)
    /\ UNCHANGED <<cvars, ret, leads_df, runs, enable_mx, caller, crawl, mvars, fvars, evars>>

\* lines 607-628: the next hit, up to the call of crawl_for_emails
Hit ==
    /\ pc = "hits"
    /\ job.hits # << >>
    /\ LET hit == Head(job.hits)
           url == normalize_url(hit.link)
           next == [job EXCEPT !.hits = Tail(@)]
       IN  IF url.scheme \notin {"http", "https"}
           THEN /\ job' = next
                /\ trace' = << >>
                /\ UNCHANGED <<cache_robots, cache_pages, pc, crawl>>
           ELSE \E env \in CrawlRobotsEnvs(url), resp \in HomeResponses :
                  LET a == is_allowed_by_robots(url, cache_robots, now, env)
                      g == safe_get(url, cache_pages, now, resp)
                      name == extract_company_name(g.r.html, url)
                  IN  /\ cache_robots' = a.robots
                      /\ IF ~a.allowed
                         THEN /\ job' = next
                              /\ trace' = a.events \o <<Verdict(url, FALSE)>>
                              /\ UNCHANGED <<cache_pages, pc, crawl>>
                         ELSE /\ trace' = a.events \o <<Verdict(url, TRUE)>> \o g.events
                              /\ cache_pages' = g.pages
                              /\ IF \/ ~(Truthy(g.r) /\ g.r.html.text # NoStr)
                                    \/ (~job.flooring /\ looks_like_competitor(name))
                                 THEN /\ job' = next
                                      /\ UNCHANGED <<pc, crawl>>
                                 ELSE /\ job' = [job EXCEPT !.hits = Tail(@), !.hit = hit, !.name = name]
                                      /\ crawl' = [NoCrawl EXCEPT !.start = url]
                                      /\ pc' = "crawl"
    /\ lastEvt' = LastOf(trace, lastEvt)
    /\ UNCHANGED <<now, ticks, cache_emails, ret, leads_df, runs, enable_mx, caller,
                   mvars, fvars, evars>>

\* lines 628-647: what crawl_for_emails returned becomes a row, or nothing
Row ==
    /\ pc = "row"
    /\ LET hit == job.hit
           emails == ret.result.emails
       IN  job' = [job EXCEPT
                     !.hit = NoHit,
                     !.name = NoStr,
                     !.new_rows =
                        IF emails = << >> THEN @
                        ELSE Append(@, [Company |-> job.name,
                                        Email |-> emails[1],
                                        Website |-> normalize_url(hit.link),
                                        Phone |-> ret.result.phone,
                                        Source |-> hit.engine,
                                        EmailVerified |-> IF ret.result.any_verified THEN "Yes"
                                                          ELSE "SyntaxOnly",
                                        MXDomain |-> ret.result.mx_domain])]
    /\ pc' = "hits"
    /\ crawl' = NoCrawl
    /\ ret' = NoRet
    /\ trace' = << >>
    /\ lastEvt' = LastOf(trace, lastEvt)
    /\ UNCHANGED <<cvars, leads_df, runs, enable_mx, caller, mvars, fvars, evars>>

\* lines 649-656: the new rows join the leads of the session
Finish ==
    /\ pc = "hits"
    /\ job.hits = << >>
    /\ leads_df' = Accumulate(leads_df, job.new_rows)
    /\ ret' = [fn |-> "run", before |-> leads_df, new_rows |-> job.new_rows]
    /\ job' = NoJob
    /\ pc' = "idle"
    /\ trace' = << >>
    /\ lastEvt' = LastOf(trace, lastEvt)
    /\ UNCHANGED <<cvars, runs, enable_mx, caller, crawl, mvars, fvars, evars>>

Next ==
    \/ RunSearch \/ Search \/ MergeQuery \/ Hit
    \/ CrawlEnter \/ CrawlHome \/ CrawlPage \/ CrawlEnd
    \/ Row \/ Finish \/ ClearLeads

Spec == Init /\ [][Next]_vars

\* whether the host of url ends with a deny-list suffix
DeniedHost(url) == \E i \in DOMAIN deny_domains : EndsWith(domain(url), deny_domains[i])

\* the pages that safe_get asked the network for
PageGets(events) == { u \in GetsIn(events) : u # robots_url(u.auth) }

\* C8 (as stated): during a run no page is fetched from a host that ends
\* with a deny-list suffix, the likely contact pages that crawl_for_emails
\* follows from an allowed homepage included.
C8_DenyListNeverCrawled == \A u \in PageGets(trace) : ~DeniedHost(u)

\* with fb.com denied, the crawl of http://a.com/ fetched https://fb.com/about
C8_DeniedPageFetched ==
    /\ pc = "crawl_pages"
    /\ caller = "pipeline"
    /\ deny_domains = <<FB_COM>>
    /\ crawl.start = HOME_URL
    /\ Traffic(trace) = <<Sleep, Get(robots_url(FB_COM)), Sleep, Get(Url("https", FB_COM, P_ABOUT))>>

IsRequest(e) == e.ev \in {"get", "post"}

\* the sleep or request before position i of the last step
EventBefore(i) == LastOf(SubSeq(trace, 1, i - 1), lastEvt)

\* C9 (as stated): in a run every network request (search request,
\* robots.txt GET, homepage GET, contact-page GET) comes directly after a
\* sleep: no two requests follow each other without a sleep in between.
C9_SleepBeforeEveryRequest ==
    \A i \in DOMAIN trace : IsRequest(trace[i]) => EventBefore(i) = "sleep"

\* the hit loop asked for robots.txt and then at once for the homepage
C9_BackToBack ==
    /\ caller = "pipeline"
    /\ Traffic(trace) = <<Sleep, Get(robots_url(A_COM)), Get(HOME_URL)>>

\* a GET of a target page: not of robots.txt, not of a search engine
IsPageGet(e) == e.ev = "get" /\ e.url \in PageGets(<<e>>) \ {BING_URL, GOOGLE_URL}

IsVerdict(e) == e.ev \in {"allowed", "denied"}

\* the robots answer or page GET that comes last before position i of events
\* is "allowed" for the url requested at i
AllowedBefore(events, i) ==
    LET prior == { j \in 1..(i - 1) : IsVerdict(events[j]) \/ IsPageGet(events[j]) }
    IN  /\ prior # {}
        /\ events[CHOOSE j \in prior : \A k \in prior : k <= j] = Verdict(events[i].url, TRUE)

\* crawl_for_emails was answered "denied" for its start_url in this step
StartDenied == pc = "crawl" /\ Verdict(crawl.start, FALSE) \in Range(trace')

\* crawl_for_emails was answered "denied" for the likely contact page p in this step
PageDenied(p) == pc = "crawl_pages" /\ Verdict(p, FALSE) \in Range(trace')

C12_Step ==
    /\ \A i \in DOMAIN trace' :
         IsPageGet(trace'[i]) => AllowedBefore(trace \o trace', Len(trace) + i)
    /\ StartDenied =>
         /\ ret' = [ret' EXCEPT !.fn = "crawl_for_emails", !.start = crawl.start,
                                !.cached = FALSE, !.result = EmptyResult]
         /\ pc' \notin {"crawl_home", "crawl_pages"}
         /\ \A i \in DOMAIN trace' : ~IsPageGet(trace'[i])
         /\ cache_emails' = cache_emails
         /\ cache_pages' = cache_pages
    /\ \A p \in crawl.pages : PageDenied(p) =>
         /\ \A i \in DOMAIN trace' : ~IsPageGet(trace'[i])
         /\ cache_pages' = cache_pages
         /\ crawl' = [crawl EXCEPT !.pages = @ \ {p}]
         /\ pc' = "crawl_pages"
    /\ (pc = "crawl_pages" /\ pc' # "crawl_pages") => crawl.pages = {}

\* C12: a target page is requested only directly after robots.txt allowed
\* that page, in the pipeline and in crawl_for_emails alike; when robots.txt
\* denies start_url, crawl_for_emails returns ([], "", False, "") with no
\* page fetched and no contact-set entry written; a denied likely contact
\* page is passed over, and the crawl returns only when every remaining
\* page has had its turn.
C12_RobotsBeforeFetch == [][C12_Step]_vars

\* the crawl of http://a.com/ was denied its /contact page while another
\* likely page was still to come
C12_Witness ==
    /\ pc = "crawl_pages"
    /\ crawl.start = HOME_URL
    /\ crawl.pages # {}
    /\ Verdict(Url("http", A_COM, P_CONTACT), FALSE) \in Range(trace)

\* the pipeline fetched http://a.com/ after robots.txt allowed it
C12_WitnessFetched ==
    /\ caller = "pipeline"
    /\ pc = "crawl"
    /\ Len(trace) >= 2
    /\ trace[Len(trace) - 1] = Verdict(HOME_URL, TRUE)
    /\ trace[Len(trace)] = Get(HOME_URL)

\* crawl_for_emails was denied its start_url and returned nothing
C12_WitnessStartDenied ==
    /\ ret # NoRet
    /\ ret.fn = "crawl_for_emails"
    /\ ret.result = EmptyResult
    /\ ~ret.cached
    /\ trace # << >>
    /\ trace[Len(trace)] = Verdict(ret.start, FALSE)

----------------------------------------------------------------------------
(* Harness of the lead collection *)

MaxNewRows == 2

\* rows a run may come up with
LeadRows ==
    [Company : {NAME_ACME}, Email : {E_AX, E_BY},
     Website : {HOME_URL, Url("https", A_COM, P_X)}, Phone : {PHONE_1},
     Source : {"bing", "google"}, EmailVerified : {"Yes"}, MXDomain : {NoStr}]

\* new_rows of a run: merge_and_dedupe left one hit for a website
NewRowLists ==
    { rows \in SeqsUpTo(LeadRows, MaxNewRows) :
        \A i, j \in DOMAIN rows : i # j => rows[i].Website # rows[j].Website }

\* a whole run (lines 578-656) that came up with new_rows
LeadsRun ==
    /\ pc = "idle"
    /\ \E new_rows \in NewRowLists :
         /\ leads_df' = Accumulate(leads_df, new_rows)
         /\ ret' = [fn |-> "run", before |-> leads_df, new_rows |-> new_rows]
    /\ trace' = << >>
    /\ lastEvt' = "none"
    /\ UNCHANGED <<cvars, pc, runs, enable_mx, caller, crawl, job, mvars, fvars, evars>>

LeadsNext == LeadsRun \/ ClearLeads

SpecLeads == Init /\ [][LeadsNext]_vars

IsPrefix(a, b) == Len(a) <= Len(b) /\ SubSeq(b, 1, Len(a)) = a

\* C7: the leads of the session never hold two records with the same
\* (Email, Website); a run leaves every lead it found in its place and
\* unchanged, so of two records with the same pair the earlier one is kept,
\* and every new row's pair is in the collection after the run.
C7_LeadUniqueness ==
    /\ \A i, j \in DOMAIN leads_df : i # j => ~SamePair(leads_df[i], leads_df[j])
    /\ ret.fn = "run" =>
          /\ IsPrefix(ret.before, leads_df)
          /\ \A k \in DOMAIN ret.new_rows :
                \E i \in DOMAIN leads_df : SamePair(leads_df[i], ret.new_rows[k])

\* a run came up with a lead whose pair the session held already, from
\* another source, and with a lead it did not hold
C7_Witness ==
    /\ ret.fn = "run"
    /\ Len(ret.before) = 1
    /\ Len(ret.new_rows) = 2
    /\ SamePair(ret.new_rows[1], ret.before[1])
    /\ ret.new_rows[1] # ret.before[1]
    /\ leads_df = ret.before \o <<ret.new_rows[2]>>

=============================================================================
